---------------------------- MODULE Spec2Model ----------------------------
(***************************************************************************)
(* A model of contentCreator.py: the Markdown title formatter, the OpenAI  *)
(* fetch with its loading-indicator thread, the file writer, the batch     *)
(* runner and the entry point.                                             *)
(*                                                                         *)
(* A Python str is a sequence of one-character strings.                    *)
(***************************************************************************)
EXTENDS Integers, Sequences, FiniteSets, TLC

(***************************************************************************)
(* Bounds of the model.                                                    *)
(***************************************************************************)
\* longest raw text handed to the formatter under FmtSpec
MaxLen == 4
\* most items the batch file's JSON value iterates over
MaxPrompts == 2

(***************************************************************************)
(* Characters.                                                             *)
(***************************************************************************)
\* the characters raw texts are built from
Chars == {"#", " ", "*", "\n", "a", "B", "1", "-", "!"}

\* str.isspace(): what str.strip() trims and what \s matches
IsSpace(c) == c \in {" ", "\n", "\t"}

\* a line boundary of str.splitlines()
IsLineBreak(c) == c = "\n"

\* the character class [a-zA-Z0-9\s-] of line 72
IsSlugChar(c) == c \in {"a", "B", "b", "1", "-"} \/ IsSpace(c)

\* str.lower() on one character
LowerChar(c) == IF c = "B" THEN "b" ELSE c

\* what a slug is to be made of: lowercase letters, digits and hyphens
IsLowerDigitHyphen(c) ==
    c \in {"a", "b", "c", "d", "e", "f", "g", "h", "i", "j", "k", "l", "m",
           "n", "o", "p", "q", "r", "s", "t", "u", "v", "w", "x", "y", "z",
           "0", "1", "2", "3", "4", "5", "6", "7", "8", "9", "-"}

(***************************************************************************)
(* String operations used by format_as_h1_and_get_title.                   *)
(***************************************************************************)
\* index of the first line boundary of s, 0 when there is none
RECURSIVE FirstBreak(_, _)
FirstBreak(s, k) ==
    IF k > Len(s) THEN 0
    ELSE IF IsLineBreak(s[k]) THEN k
    ELSE FirstBreak(s, k + 1)

\* content.splitlines(): no final empty line after a trailing boundary
RECURSIVE splitlines(_)
splitlines(s) ==
    IF s = <<>> THEN <<>>
    ELSE LET k == FirstBreak(s, 1)
         IN  IF k = 0 THEN <<s>>
             ELSE <<SubSeq(s, 1, k - 1)>> \o splitlines(SubSeq(s, k + 1, Len(s)))

RECURSIVE lstrip(_)
lstrip(s) ==
    IF s # <<>> /\ IsSpace(Head(s)) THEN lstrip(Tail(s)) ELSE s

RECURSIVE rstrip(_)
rstrip(s) ==
    IF s # <<>> /\ IsSpace(s[Len(s)]) THEN rstrip(SubSeq(s, 1, Len(s) - 1)) ELSE s

\* str.strip()
strip(s) == rstrip(lstrip(s))

\* a mutant of RemoveEmphasis: only the bold marker "**" is removed
RECURSIVE RemoveEmphasis_BoldOnly(_)
RemoveEmphasis_BoldOnly(s) ==
    IF s = <<>> THEN <<>>
    ELSE IF Len(s) >= 2 /\ s[1] = "*" /\ s[2] = "*"
         THEN RemoveEmphasis_BoldOnly(SubSeq(s, 3, Len(s)))
    ELSE <<Head(s)>> \o RemoveEmphasis_BoldOnly(Tail(s))

\* re.sub(r"\*\*|\*", "", s): left to right, "**" tried before "*"
RECURSIVE RemoveEmphasis(_)
RemoveEmphasis(s) ==
    IF s = <<>> THEN <<>>
    ELSE IF Len(s) >= 2 /\ s[1] = "*" /\ s[2] = "*" THEN RemoveEmphasis(SubSeq(s, 3, Len(s)))
    ELSE IF s[1] = "*" THEN RemoveEmphasis(Tail(s))
    ELSE <<Head(s)>> \o RemoveEmphasis(Tail(s))

\* s.startswith("# ")
StartsWithH1(s) == Len(s) >= 2 /\ s[1] = "#" /\ s[2] = " "

\* a mutant of EnsureH1: the prefix is added without the startswith test
EnsureH1_Always(title_line) == <<"#", " ">> \o title_line

\* if not title_line.startswith("# "): title_line = f"# {title_line}"
EnsureH1(title_line) ==
    IF ~StartsWithH1(title_line) THEN <<"#", " ">> \o title_line ELSE title_line

\* lines 63-68: the heading line made from the first line
TitleLine(first) == EnsureH1(RemoveEmphasis(strip(first)))

\* re.sub(r"[^a-zA-Z0-9\s-]", "", s)
RemoveNonSlug(s) == SelectSeq(s, IsSlugChar)

\* str.lower()
lower(s) == [k \in 1..Len(s) |-> LowerChar(s[k])]

\* re.sub(r"\s+", h, s): every maximal run of whitespace becomes one h
RECURSIVE CollapseSpace(_, _)
CollapseSpace(s, h) ==
    IF s = <<>> THEN <<>>
    ELSE IF IsSpace(Head(s))
         THEN <<h>> \o CollapseSpace(lstrip(s), h)
         ELSE <<Head(s)>> \o CollapseSpace(Tail(s), h)

\* a mutant of SlugText: the surrounding whitespace is not trimmed
SlugText_NoStrip(title_line) == lower(RemoveNonSlug(SubSeq(title_line, 3, Len(title_line))))

\* line 72: the title with the "# " cut off, cleaned, trimmed and lowercased
SlugText(title_line) ==
    lower(strip(RemoveNonSlug(SubSeq(title_line, 3, Len(title_line)))))

\* line 73
Slug(title_line) == CollapseSpace(SlugText(title_line), "-")

\* "\n".join(lines)
RECURSIVE join(_)
join(lines) ==
    IF lines = <<>> THEN <<>>
    ELSE IF Len(lines) = 1 THEN lines[1]
    ELSE lines[1] \o <<"\n">> \o join(Tail(lines))

untitled == <<"u", "n", "t", "i", "t", "l", "e", "d">>

\* format_as_h1_and_get_title(content): (formatted_content, title_for_filename)
format_as_h1_and_get_title(content) ==
    LET lines == splitlines(content)
    IN  IF lines # <<>>
        THEN LET title_line == TitleLine(lines[1])
                 newlines   == [lines EXCEPT ![1] = title_line]
             IN  [body |-> join(newlines), slug |-> Slug(title_line)]
        ELSE [body |-> content, slug |-> untitled]


(***************************************************************************)
(* The program state.                                                      *)
(***************************************************************************)
VARIABLES
    mode,          \* args.prompts given ("batch") or not ("single")
    file,          \* what open() and json.load() make of the batch file
    custom_prompt, \* the line read by input()
    pc,            \* where the main thread is
    i,             \* the 1-based index of the prompt being processed
    stop_loading,  \* the module-level flag of line 40
    ind,           \* ind[t]: where the indicator thread of call t is
    glyph,         \* glyph[t]: position of thread t in itertools.cycle
    req,           \* req[t]: the API request of call t
    response,      \* the response object of the current call
    result,        \* result[t]: what fetch_openai_response returned for prompt t
    saveCalls,     \* the invocations of save_to_md_file, in order
    files,         \* the file names written under content/
    failLogged,    \* the indices logged by line 168 (line 192 in single mode)
    batchErr,      \* the exception logged by line 170
    lastLine,      \* who wrote the terminal last
    raw,           \* FmtSpec: the raw text T
    formatted,     \* FmtSpec: format_as_h1_and_get_title(T)
    reformatted,   \* FmtSpec: format_as_h1_and_get_title of the body of formatted
    fpc            \* FmtSpec: how often the formatter was applied

progVars == <<mode, file, custom_prompt, pc, i, stop_loading, ind, glyph, req,
              response, result, saveCalls, files, failLogged, batchErr, lastLine>>
fmtVars == <<raw, formatted, reformatted, fpc>>
vars == <<mode, file, custom_prompt, pc, i, stop_loading, ind, glyph, req,
          response, result, saveCalls, files, failLogged, batchErr, lastLine,
          raw, formatted, reformatted, fpc>>

Calls == 1..MaxPrompts

(***************************************************************************)
(* Inputs.                                                                 *)
(***************************************************************************)
\* sequences over S of length at most n
SeqUpTo(S, n) == UNION {[1..k -> S] : k \in 0..n}

\* The batch file.  kind "missing": open() raises; "invalid": json.load()
\* raises; otherwise the JSON value loaded.  elems is what iterating the
\* value yields: the elements of an array ("str" a string, "num" another
\* value), the characters of a string, the keys of an object.
BatchFiles ==
         {[kind |-> k, elems |-> <<>>] : k \in {"missing", "invalid", "number"}}
    \cup {[kind |-> "array", elems |-> e] : e \in SeqUpTo({"str", "num"}, MaxPrompts)}
    \cup {[kind |-> k, elems |-> e] : k \in {"string", "object"},
                                       e \in SeqUpTo({"str"}, MaxPrompts)}

NoFile == [kind |-> "none", elems |-> <<>>]

\* json.load() returned a value
Loaded(f) == f.kind \notin {"missing", "invalid", "none"}

\* enumerate() accepts the value
Iterable(f) == f.kind \in {"array", "string", "object"}

\* the value is a JSON array whose elements are all strings
IsArrayOfStrings(f) ==
    f.kind = "array" /\ \A k \in 1..Len(f.elems) : f.elems[k] = "str"

\* texts the API may return as message content
ResponseTexts == { <<>>, <<"*", "B", "*", " ", "a", "\n">> }

NoResponse == [content |-> <<>>, usage |-> FALSE]

\* the return value of fetch_openai_response: (None, None, None) or the text
Pending == [st |-> "pending", text |-> <<>>]
Absent == [st |-> "absent", text |-> <<>>]
Present(t) == [st |-> "present", text |-> t]

\* "if response_text:" of lines 163 and 187
Truthy(r) == r.st = "present" /\ r.text # <<>>

\* f"{title_for_filename}.md"
output_filename(title) == title \o <<".", "m", "d">>

(***************************************************************************)
(* Initial states.                                                         *)
(***************************************************************************)
ProgInit ==
    /\ mode \in {"batch", "single"}
    /\ file \in (IF mode = "batch" THEN BatchFiles ELSE {NoFile})
    /\ custom_prompt \in (IF mode = "single" THEN {"blank", "text"} ELSE {"unread"})
    /\ pc = "main"
    /\ i = 0
    /\ stop_loading = FALSE
    /\ ind = [t \in Calls |-> "unborn"]
    /\ glyph = [t \in Calls |-> 0]
    /\ req = [t \in Calls |-> "none"]
    /\ response = NoResponse
    /\ result = [t \in Calls |-> Pending]
    /\ saveCalls = <<>>
    /\ files = {}
    /\ failLogged = {}
    /\ batchErr = "none"
    /\ lastLine = [kind |-> "log", who |-> 0]

FmtIdle ==
    /\ raw = <<>>
    /\ formatted = [body |-> <<>>, slug |-> <<>>]
    /\ reformatted = [body |-> <<>>, slug |-> <<>>]
    /\ fpc = "off"

Init == ProgInit /\ FmtIdle

(***************************************************************************)
(* The entry point (lines 173-192) and the batch runner (lines 151-170).   *)
(***************************************************************************)
env == <<mode, file, custom_prompt>>
threads == <<stop_loading, ind, glyph>>
outputs == <<saveCalls, files, failLogged, batchErr>>

Log(n) == [kind |-> "log", who |-> n]

\* where control goes once a prompt is dealt with
AfterPrompt == IF mode = "batch" THEN "for" ELSE "done"

\* lines 178-179: args.prompts is set, process_prompts_from_file is called
MainBatch ==
    /\ pc = "main" /\ mode = "batch"
    /\ pc' = "load"
    /\ UNCHANGED <<env, i, threads, req, response, result, outputs, lastLine, fmtVars>>

\* lines 181-186: input(); an empty prompt is logged and ends the run by exit(1)
MainSingle ==
    /\ pc = "main" /\ mode = "single"
    /\ IF custom_prompt = "blank"
       THEN /\ pc' = "exit1"
            /\ lastLine' = Log(0)
            /\ i' = i
       ELSE /\ pc' = "f_start"
            /\ i' = 1
            /\ lastLine' = lastLine
    /\ UNCHANGED <<env, threads, req, response, result, outputs, fmtVars>>

\* lines 157-159 (and 169-170): open() and json.load()
LoadPrompts ==
    /\ pc = "load"
    /\ IF Loaded(file)
       THEN /\ pc' = "for"
            /\ UNCHANGED <<batchErr, lastLine>>
       ELSE /\ pc' = "done"
            /\ batchErr' = file.kind
            /\ lastLine' = Log(0)
    /\ UNCHANGED <<env, i, threads, req, response, result, saveCalls, files,
                   failLogged, fmtVars>>

\* lines 160-162 (and 169-170): enumerate(prompts, 1) yields the next item,
\* is exhausted, or raises TypeError on a value that is not iterable
ForNext ==
    /\ pc = "for"
    /\ IF ~Iterable(file)
       THEN /\ pc' = "done"
            /\ batchErr' = "not iterable"
            /\ lastLine' = Log(0)
            /\ i' = i
       ELSE IF i >= Len(file.elems)
       THEN /\ pc' = "done"
            /\ UNCHANGED <<batchErr, lastLine, i>>
       ELSE /\ i' = i + 1
            /\ pc' = "f_start"
            /\ lastLine' = Log(i + 1)
            /\ batchErr' = batchErr
    /\ UNCHANGED <<env, threads, req, response, result, saveCalls, files,
                   failLogged, fmtVars>>

(***************************************************************************)
(* fetch_openai_response (lines 79-130), for the prompt of index i.        *)
(***************************************************************************)
\* lines 90-94: the indicator thread is created and started
ThreadStart ==
    /\ pc = "f_start"
    /\ ind' = [ind EXCEPT ![i] = "check"]
    /\ pc' = "f_sendlog"
    /\ UNCHANGED <<env, i, stop_loading, glyph, req, response, result, outputs,
                   lastLine, fmtVars>>

\* line 96
SendLog ==
    /\ pc = "f_sendlog"
    /\ lastLine' = Log(i)
    /\ pc' = "f_api"
    /\ UNCHANGED <<env, i, threads, req, response, result, outputs, fmtVars>>

\* line 99: the request goes out
ApiRequest ==
    /\ pc = "f_api"
    /\ req' = [req EXCEPT ![i] = "inflight"]
    /\ pc' = "f_wait"
    /\ UNCHANGED <<env, i, threads, response, result, outputs, lastLine, fmtVars>>

\* line 99: create() returns a response
ApiReturn ==
    /\ pc = "f_wait"
    /\ \E text \in ResponseTexts, usage \in BOOLEAN :
           response' = [content |-> text, usage |-> usage]
    /\ req' = [req EXCEPT ![i] = "ok"]
    /\ pc' = "f_usage"
    /\ UNCHANGED <<env, i, threads, result, outputs, lastLine, fmtVars>>

\* line 99: create() raises
ApiRaise ==
    /\ pc = "f_wait"
    /\ req' = [req EXCEPT ![i] = "raised"]
    /\ pc' = "f_except"
    /\ UNCHANGED <<env, i, threads, response, result, outputs, lastLine, fmtVars>>

\* lines 116-117: response.usage.total_tokens raises on a response without usage
ReadUsage ==
    /\ pc = "f_usage"
    /\ pc' = IF response.usage THEN "f_stop" ELSE "f_except"
    /\ UNCHANGED <<env, i, threads, req, response, result, outputs, lastLine, fmtVars>>

\* line 120
StopLoading ==
    /\ pc = "f_stop"
    /\ stop_loading' = TRUE
    /\ pc' = "f_join"
    /\ UNCHANGED <<env, i, ind, glyph, req, response, result, outputs, lastLine, fmtVars>>

\* line 121: loading_thread.join()
Join ==
    /\ pc = "f_join"
    /\ ind[i] = "done"
    /\ pc' = "f_log"
    /\ UNCHANGED <<env, i, threads, req, response, result, outputs, lastLine, fmtVars>>

\* lines 123-126: the two log lines and the return of the text; the local
\* variable response ends with the call
LogResponse ==
    /\ pc = "f_log"
    /\ lastLine' = Log(i)
    /\ result' = [result EXCEPT ![i] = Present(response.content)]
    /\ response' = NoResponse
    /\ pc' = "after"
    /\ UNCHANGED <<env, i, threads, req, outputs, fmtVars>>

\* a mutant of ExceptStop: the handler does not set the flag
ExceptStop_NoFlag ==
    /\ pc = "f_except"
    /\ pc' = "f_elog"
    /\ UNCHANGED <<env, i, threads, req, response, result, outputs, lastLine, fmtVars>>

\* lines 127-128: the handler sets the flag and does not join
ExceptStop ==
    /\ pc = "f_except"
    /\ stop_loading' = TRUE
    /\ pc' = "f_elog"
    /\ UNCHANGED <<env, i, ind, glyph, req, response, result, outputs, lastLine, fmtVars>>

\* lines 129-130: the error is logged, (None, None, None) is returned
ExceptLog ==
    /\ pc = "f_elog"
    /\ lastLine' = Log(i)
    /\ result' = [result EXCEPT ![i] = Absent]
    /\ response' = NoResponse
    /\ pc' = "after"
    /\ UNCHANGED <<env, i, threads, req, outputs, fmtVars>>

(***************************************************************************)
(* The caller's use of the result (lines 163-168 and 187-192) and          *)
(* save_to_md_file (lines 132-149).                                        *)
(***************************************************************************)
\* lines 164-166: the arguments of save_to_md_file for the text of prompt n
SaveArgs(n, response_text) ==
    LET doc == format_as_h1_and_get_title(response_text)
    IN  [idx |-> n, filename |-> output_filename(doc.slug), content |-> doc.body]

\* lines 163-168: a truthy text is formatted and handed to save_to_md_file,
\* anything else is logged as a failure
UseResult ==
    /\ pc = "after"
    /\ IF Truthy(result[i])
       THEN /\ saveCalls' = Append(saveCalls, SaveArgs(i, result[i].text))
            /\ pc' = "makedirs"
            /\ UNCHANGED <<failLogged, lastLine>>
       ELSE /\ failLogged' = failLogged \cup {i}
            /\ lastLine' = Log(i)
            /\ pc' = AfterPrompt
            /\ saveCalls' = saveCalls
    /\ UNCHANGED <<env, i, threads, req, response, result, files, batchErr, fmtVars>>

\* line 140: os.makedirs stands outside the try of save_to_md_file; what it
\* raises leaves save_to_md_file, to the handler of line 169 in batch mode
\* and to the top level in single mode
Makedirs ==
    /\ pc = "makedirs"
    /\ \E ok \in BOOLEAN :
          IF ok
          THEN /\ pc' = "write"
               /\ UNCHANGED <<batchErr, lastLine>>
          ELSE IF mode = "batch"
          THEN /\ pc' = "done"
               /\ batchErr' = "makedirs"
               /\ lastLine' = Log(0)
          ELSE /\ pc' = "crashed"
               /\ UNCHANGED <<batchErr, lastLine>>
    /\ UNCHANGED <<env, i, threads, req, response, result, saveCalls, files,
                   failLogged, fmtVars>>

\* lines 143-149: the file is written, or the failure is logged
WriteFile ==
    /\ pc = "write"
    /\ \E ok \in BOOLEAN :
          files' = IF ok THEN files \cup {saveCalls[Len(saveCalls)].filename} ELSE files
    /\ lastLine' = Log(i)
    /\ pc' = AfterPrompt
    /\ UNCHANGED <<env, i, threads, req, response, result, saveCalls, failLogged,
                   batchErr, fmtVars>>

(***************************************************************************)
(* loading_indicator (lines 42-50), run by the thread of call t.           *)
(***************************************************************************)
\* line 45: the flag is read
IndCheck(t) ==
    /\ ind[t] = "check"
    /\ ind' = [ind EXCEPT ![t] = IF stop_loading THEN "final" ELSE "write"]
    /\ UNCHANGED <<env, pc, i, stop_loading, glyph, req, response, result, outputs,
                   lastLine, fmtVars>>

\* lines 47-49: the next glyph is written, the thread sleeps
IndWrite(t) ==
    /\ ind[t] = "write"
    /\ lastLine' = [kind |-> "glyph", who |-> t]
    /\ glyph' = [glyph EXCEPT ![t] = (glyph[t] + 1) % 4]
    /\ ind' = [ind EXCEPT ![t] = "check"]
    /\ UNCHANGED <<env, pc, i, stop_loading, req, response, result, outputs, fmtVars>>

\* line 50: 'Response generated!' is written, the thread and its iterator end
IndFinal(t) ==
    /\ ind[t] = "final"
    /\ lastLine' = [kind |-> "generated", who |-> t]
    /\ ind' = [ind EXCEPT ![t] = "done"]
    /\ glyph' = [glyph EXCEPT ![t] = 0]
    /\ UNCHANGED <<env, pc, i, stop_loading, req, response, result, outputs, fmtVars>>

Indicator(t) == IndCheck(t) \/ IndWrite(t) \/ IndFinal(t)

\* the steps of fetch_openai_response that do not wait for the API
FetchStep ==
    \/ ThreadStart \/ SendLog \/ ApiRequest \/ ReadUsage \/ StopLoading \/ Join
    \/ LogResponse \/ ExceptStop \/ ExceptLog

\* the steps of the entry point, the batch runner and the file writer
CallerStep ==
    \/ MainBatch \/ MainSingle \/ LoadPrompts \/ ForNext
    \/ UseResult \/ Makedirs \/ WriteFile

Next ==
    \/ CallerStep
    \/ FetchStep
    \/ ApiReturn
    \/ ApiRaise
    \/ \E t \in Calls : Indicator(t)

Spec == Init /\ [][Next]_vars

\* The indicator threads are scheduled fairly and the main thread does not
\* halt inside fetch_openai_response; nothing makes the API answer.
FairSpec ==
    /\ Spec
    /\ WF_vars(FetchStep)
    /\ \A t \in Calls : WF_vars(Indicator(t))

(***************************************************************************)
(* The formatter on its own: every raw text of up to MaxLen characters.    *)
(***************************************************************************)
ProgIdle ==
    /\ mode = "none"
    /\ file = NoFile
    /\ custom_prompt = "unread"
    /\ pc = "off"
    /\ i = 0
    /\ stop_loading = FALSE
    /\ ind = [t \in Calls |-> "unborn"]
    /\ glyph = [t \in Calls |-> 0]
    /\ req = [t \in Calls |-> "none"]
    /\ response = NoResponse
    /\ result = [t \in Calls |-> Pending]
    /\ saveCalls = <<>>
    /\ files = {}
    /\ failLogged = {}
    /\ batchErr = "none"
    /\ lastLine = [kind |-> "log", who |-> 0]

FmtInit ==
    /\ ProgIdle
    /\ raw \in SeqUpTo(Chars, MaxLen)
    /\ formatted = [body |-> <<>>, slug |-> <<>>]
    /\ reformatted = [body |-> <<>>, slug |-> <<>>]
    /\ fpc = "raw"

\* format_as_h1_and_get_title(T)
FmtOnce ==
    /\ fpc = "raw"
    /\ formatted' = format_as_h1_and_get_title(raw)
    /\ fpc' = "once"
    /\ UNCHANGED <<raw, reformatted, progVars>>

\* format_as_h1_and_get_title applied to the body it returned
FmtTwice ==
    /\ fpc = "once"
    /\ reformatted' = format_as_h1_and_get_title(formatted.body)
    /\ fpc' = "twice"
    /\ UNCHANGED <<raw, formatted, progVars>>

FmtNext == FmtOnce \/ FmtTwice

FmtSpec == FmtInit /\ [][FmtNext]_vars

(***************************************************************************)
(* Properties of the indicator thread.                                     *)
(***************************************************************************)
Settled(t) == req[t] \in {"ok", "raised"}

\* fetch_openai_response has written the first log line after the API call
\* of prompt t settled (line 123 or line 129)
LoggedAfterSettle(t) == result[t].st # "pending"

\* C1: the indicator thread of a call leaves its glyph loop and writes
\* 'Response generated!' only after the API request of that call has settled.
C1_CompletionOnlyAfterSettle ==
    \A t \in Calls : ind[t] \in {"final", "done"} => Settled(t)

\* C2: once fetch_openai_response has written the first log line that follows
\* the settling of the API call, the indicator thread of that call has
\* terminated, so it writes nothing afterwards and is dead at the return.
C2_JoinedBeforeLog ==
    \A t \in Calls : LoggedAfterSettle(t) => ind[t] = "done"

\* C3: under fair scheduling, the indicator thread of a call terminates once
\* the API request of that call has settled, by a response or by an exception.
C3_IndicatorTerminates ==
    \A t \in Calls : Settled(t) ~> (ind[t] = "done")

\* a first call whose request raised and whose thread has just written its
\* completion message and ended
C3_Witness ==
    /\ req[1] = "raised"
    /\ ind[1] = "done"
    /\ lastLine = [kind |-> "generated", who |-> 1]

(***************************************************************************)
(* Properties of the batch runner, the entry point and the file writer.    *)
(***************************************************************************)
\* save_to_md_file was invoked for prompt t
SavedFor(t) == {k \in 1..Len(saveCalls) : saveCalls[k].idx = t}

\* C4: in a loaded batch of n prompts, a fetch that returns an absent result
\* for prompt k is logged as a failure of k, and every later prompt is still
\* fetched and, when its fetch returns text, has that text saved.
C4_FailureIsolated ==
    (mode = "batch" /\ Loaded(file) /\ Iterable(file) /\ pc = "done") =>
        \A k \in 1..Len(file.elems) :
            result[k] = Absent =>
                /\ k \in failLogged
                /\ \A j \in (k + 1)..Len(file.elems) :
                       /\ result[j].st # "pending"
                       /\ result[j].st = "present" => SavedFor(j) # {}

\* C5: save_to_md_file never raises: no exception of it reaches the handler
\* of the batch runner or ends the single-prompt run.
C5_SaveNeverRaises ==
    pc # "crashed" /\ batchErr # "makedirs"

\* C6: for a batch file that is missing, unreadable or not a JSON array of
\* strings, fetch_openai_response is never called: no indicator thread is
\* started, no API request is issued, nothing is saved and no file is written.
C6_MalformedBatchAborts ==
    (mode = "batch" /\ ~IsArrayOfStrings(file)) =>
        /\ \A t \in Calls : ind[t] = "unborn" /\ req[t] = "none"
        /\ saveCalls = <<>> /\ files = {}

\* the caller is done with the result of prompt t
Handled(t) == result[t].st # "pending" /\ ~(i = t /\ pc = "after")

\* C10: a prompt whose fetch returned text, whatever the text, has
\* save_to_md_file invoked exactly once, with the file name '<slug>.md'; a
\* prompt whose fetch returned an absent result has it invoked not at all.
C10_SaveIffPresent ==
    \A t \in Calls : Handled(t) =>
        IF result[t].st = "present"
        THEN /\ Cardinality(SavedFor(t)) = 1
             /\ \A k \in SavedFor(t) :
                    saveCalls[k].filename =
                        format_as_h1_and_get_title(result[t].text).slug \o <<".", "m", "d">>
        ELSE SavedFor(t) = {}

(***************************************************************************)
(* Properties of format_as_h1_and_get_title, under FmtSpec.                *)
(***************************************************************************)
\* the text without its asterisks
WithoutAsterisks(s) == SelectSeq(s, LAMBDA c : c # "*")

EndsWithSpace(s) == s # <<>> /\ IsSpace(s[Len(s)])

\* the first line of a text that has one
FirstLine(s) == splitlines(s)[1]

\* C7: formatting the body returned for T returns that body unchanged,
\* for every raw text T.
C7_Idempotent ==
    fpc = "twice" => reformatted.body = formatted.body

\* the heading line of the body does not end with whitespace and the body
\* does not end with a line break
BodySettled(b) ==
    b # <<>> => ~EndsWithSpace(FirstLine(b)) /\ ~IsLineBreak(b[Len(b)])

\* C7, amended: formatting the body returned for T returns that body
\* unchanged whenever its heading line does not end with whitespace and the
\* body does not end with a line break.
C7_IdempotentWhenSettled ==
    (fpc = "twice" /\ BodySettled(formatted.body)) =>
        reformatted.body = formatted.body

\* a text of two lines whose first line was changed and then stays as it is
C7_Witness ==
    /\ fpc = "twice"
    /\ BodySettled(formatted.body)
    /\ Len(splitlines(raw)) = 2
    /\ formatted.body # raw
    /\ reformatted.body = formatted.body

\* the slug before the whitespace runs are collapsed, with every collapsed
\* run marked by "~" in place of the hyphen
MarkedSlug(T) ==
    IF splitlines(T) = <<>> THEN untitled
    ELSE CollapseSpace(SlugText(TitleLine(FirstLine(T))), "~")

\* C8: the slug has only lowercase letters, digits and hyphens, and no hyphen
\* that comes from a collapsed whitespace run is its first or last character.
C8_SlugClean ==
    fpc # "raw" =>
        LET slug == formatted.slug
            mark == MarkedSlug(raw)
        IN  /\ \A k \in 1..Len(slug) : IsLowerDigitHyphen(slug[k])
            /\ Len(mark) = Len(slug)
            /\ mark # <<>> => mark[1] # "~" /\ mark[Len(mark)] # "~"

\* a title with an uppercase letter and an inner whitespace run
C8_Witness ==
    /\ fpc = "once"
    /\ raw = <<"a", " ", " ", "B">>
    /\ formatted.slug = <<"a", "-", "b">>

\* C9: when the first line of T starts with '# ', the first line of the body
\* is that line with only its asterisks removed.
C9_HeadingKept ==
    (fpc # "raw" /\ raw # <<>> /\ StartsWithH1(FirstLine(raw))) =>
        FirstLine(formatted.body) = WithoutAsterisks(FirstLine(raw))

\* C9, amended: when the first line of T starts with '# ' and does not end
\* with whitespace, the first line of the body is that line with only its
\* asterisks removed.
C9_HeadingKeptWhenTrimmed ==
    (fpc # "raw" /\ raw # <<>> /\ StartsWithH1(FirstLine(raw))
                 /\ ~EndsWithSpace(FirstLine(raw))) =>
        FirstLine(formatted.body) = WithoutAsterisks(FirstLine(raw))

\* a heading with an emphasis marker in it
C9_Witness ==
    /\ fpc = "once"
    /\ raw = <<"#", " ", "*", "a">>
    /\ formatted.body = <<"#", " ", "a">>

=============================================================================
